---------------------------- MODULE Spec2Model ----------------------------
(***************************************************************************)
(* A model of the risk system of kxiao1/risk_system: the per-currency      *)
(* yield curve (InterestRates), FX spot (FXSpot) and trade ledger          *)
(* (DateNotionals) of risk_system_structs.h, and the engine                *)
(* RiskManagementSystem<G5> of risk_system.h that ingests the two feeds    *)
(* and answers the discount factor, FX spot, tenors, maturities and DV01   *)
(* queries.                                                                *)
(*                                                                         *)
(* Numbers.  A C++ double that holds a rate is modelled as a binary        *)
(* floating-point number with Precision significant bits: an integer count *)
(* of rate quanta that has at most Precision significant bits, and every   *)
(* += and -= on it rounds to nearest, ties to even, as IEEE 754 does.  One *)
(* quantum is EPS / 5, so RateScale quanta make the rate 1.0.  The         *)
(* interpolated rate r_eff is kept as an exact fraction num/den of quanta. *)
(* std::exp(y) is modelled by 1 + y, which keeps what the properties below *)
(* use of exp: it is strictly increasing, and positive over the model's    *)
(* range.  A discount factor, a book value and a DV01 are counted in units *)
(* of 1/DFUnit.  A quotient of doubles is a fraction n/d, or one of the    *)
(* IEEE special values NaN and +-Inf.                                      *)
(***************************************************************************)
EXTENDS Integers, Sequences, FiniteSets, TLC

\* ------------------------------------------------------------------ bounds
Precision == 3        \* significant bits of the modelled double
MaxTenor == 3         \* largest tenor (days) a rate line of the model carries
MaxTrades == 3         \* add_trade calls on the ledger driven on its own
MaxBook == 2          \* cap on the total notional ingested into one ledger

\* ------------------------------------------------------- program constants
EPS == 5              \* static constexpr double EPS{1e-4}, in rate quanta
RateScale == 50000    \* quanta in the rate 1.0: EPS / RateScale = 1e-4
DayCount == 360       \* std::exp(-r_eff * t / 360)
ValuationDelta == 42940   \* delta = 42940
SpotDefault == 1      \* double spot{1.0}
INT_MAX == 2147483647  \* the largest int (32 bits)

\* ----------------------------------------------------------------- helpers
Abs(n) == IF n < 0 THEN -n ELSE n

Sgn(n) == IF n < 0 THEN -1 ELSE IF n > 0 THEN 1 ELSE 0

RECURSIVE Pow2(_)
Pow2(k) == IF k = 0 THEN 1 ELSE 2 * Pow2(k - 1)

Min(S) == CHOOSE x \in S : \A y \in S : x <= y

Max(S) == CHOOSE x \in S : \A y \in S : x >= y

RECURSIVE Gcd(_, _)
Gcd(a, b) == IF b = 0 THEN a ELSE Gcd(b, a % b)

RECURSIVE LcmUpTo(_)
LcmUpTo(n) == IF n <= 1 THEN 1 ELSE LET l == LcmUpTo(n - 1) IN (l * n) \div Gcd(l, n)

RECURSIVE SumOver(_, _)
SumOver(f, S) ==
    IF S = {} THEN 0
    ELSE LET x == CHOOSE y \in S : TRUE IN f[x] + SumOver(f, S \ {x})

\* ------------------------------------------------- double, with rounding
\* The number of low bits a magnitude a loses to fit Precision bits.
RECURSIVE ShiftOf(_)
ShiftOf(a) == IF a < Pow2(Precision) THEN 0 ELSE 1 + ShiftOf(a \div 2)

\* The rounding of an exact result n to a double: nearest, ties to even.
RoundNearestEven(n) ==
    LET a == Abs(n)
        u == Pow2(ShiftOf(a))
        q == a \div u
        rem == a % u
        up == (2 * rem > u) \/ (2 * rem = u /\ q % 2 = 1)
    IN  Sgn(n) * (IF up THEN q + 1 ELSE q) * u

IsDouble(n) == RoundNearestEven(n) = n

\* a += b and a -= b on doubles
FAdd(a, b) == RoundNearestEven(a + b)

FSub(a, b) == RoundNearestEven(a - b)

\* A quotient of two doubles a / b (operands here are never negative zero).
NaN == [k |-> "nan"]

Inf(s) == [k |-> "inf", s |-> s]

Fin(n, d) == [k |-> "fin", n |-> n, d |-> d]

FDiv(a, b) ==
    IF b # 0 THEN Fin(Sgn(b) * a, Abs(b))
    ELSE IF a = 0 THEN NaN ELSE Inf(Sgn(a))

\* x * y for a quotient x and an exact y
FMul(x, y) ==
    IF x.k = "nan" THEN NaN
    ELSE IF x.k = "inf" THEN (IF y = 0 THEN NaN ELSE Inf(x.s * Sgn(y)))
    ELSE Fin(x.n * y, x.d)

\* x / c for a quotient x and a positive constant c
FHalve(x, c) == IF x.k = "fin" THEN Fin(x.n, x.d * c) ELSE x

\* x == y as C++ compares doubles (NaN equals nothing)
FEq(x, y) ==
    /\ x.k # "nan"
    /\ y.k # "nan"
    /\ x.k = y.k
    /\ IF x.k = "inf" THEN x.s = y.s ELSE x.n * y.d = y.n * x.d

\* the sign of a quotient: -1, 0, 1, or 2 for NaN
FSign(x) == IF x.k = "nan" THEN 2 ELSE IF x.k = "inf" THEN x.s ELSE Sgn(x.n)


\* ======================================================== struct G5
\* ------------------------------------------------------------------- int
\* A C++ int is a 32-bit two's complement integer.  a + b overflows when the
\* sum leaves INT_MIN..INT_MAX; that is undefined behaviour, of which a build
\* either keeps the low 32 bits of the sum or traps.
INT_MIN == -INT_MAX - 1

IntAddOverflows(a, b) ==
    \/ b > 0 /\ a > INT_MAX - b
    \/ b < 0 /\ a < INT_MIN - b

\* The low 32 bits of a + b, as an int.
IntAddWrap(a, b) ==
    IF b > 0 /\ a > INT_MAX - b THEN ((a - INT_MAX) + (b - INT_MAX)) - 2
    ELSE IF b < 0 /\ a < INT_MIN - b THEN ((a - INT_MIN) + (b - INT_MIN))
    ELSE a + b

\* a * k for k >= 0 overflows (a >= 0)
IntMulOverflows(a, k) == k > 0 /\ a > INT_MAX \div k

\* The low 32 bits of a * k, as an int, for k >= 0.
RECURSIVE IntMulWrap(_, _)
IntMulWrap(a, k) ==
    IF k = 0 THEN 0
    ELSE IF k % 2 = 1 THEN IntAddWrap(IntMulWrap(IntAddWrap(a, a), k \div 2), a)
    ELSE IntMulWrap(IntAddWrap(a, a), k \div 2)

\* std::stoi of a string of decimal digits: its value, or std::out_of_range
\* when the value is no int.
RECURSIVE stoi_from(_, _)
stoi_from(digits, acc) ==
    IF digits = << >> THEN [threw |-> FALSE, number |-> acc]
    ELSE IF acc > (INT_MAX - Head(digits)) \div 10 THEN [threw |-> TRUE, number |-> 0]
    ELSE stoi_from(Tail(digits), acc * 10 + Head(digits))

stoi(digits) == stoi_from(digits, 0)

Currency == {"EUR", "GBP", "USD", "CAD", "JPY"}

\* ============================================== struct InterestRates
\* A curve is the std::map<int, double> rates: a function from its tenors.
EmptyRates == << >>

check_tenor(rates, tenor) == tenor \in DOMAIN rates

get_tenors(rates) == DOMAIN rates

\* A possible bug: before the first stored tenor the curve is held flat at
\* the first rate (r_left = r_right) instead of being pinned to 0 at time 0.
r_eff_flat_front(rates, t) ==
    LET above == {k \in DOMAIN rates : k > t}
        upto == {k \in DOMAIN rates : k <= t}
        at_begin == upto = {}
        at_end == above = {}
        t_left == IF at_begin THEN 0 ELSE Max(upto)
        r_left == IF at_begin THEN rates[Min(above)] ELSE rates[Max(upto)]
        t_right == IF at_begin THEN Min(above)
                   ELSE IF at_end THEN t_left + 1 ELSE Min(above)
        r_right == IF at_begin THEN rates[Min(above)]
                   ELSE IF at_end THEN r_left ELSE rates[Min(above)]
    IN  [num |-> r_left * (t_right - t) + r_right * (t - t_left),
         den |-> t_right - t_left]

\* The interpolated rate of get_discount_factor(t), as the exact fraction
\* num / den.  it = rates.upper_bound(t) is the least tenor above t.
r_eff(rates, t) ==
    LET above == {k \in DOMAIN rates : k > t}
        upto == {k \in DOMAIN rates : k <= t}
        at_begin == upto = {}
        at_end == above = {}
        t_left == IF at_begin THEN 0 ELSE Max(upto)
        r_left == IF at_begin THEN 0 ELSE rates[Max(upto)]
        t_right == IF at_begin THEN Min(above)
                   ELSE IF at_end THEN t_left + 1 ELSE Min(above)
        r_right == IF at_begin THEN rates[Min(above)]
                   ELSE IF at_end THEN r_left ELSE rates[Min(above)]
    IN  [num |-> r_left * (t_right - t) + r_right * (t - t_left),
         den |-> t_right - t_left]

\* The denominators t_right - t_left of the model's curves all divide DenLcm.
DenLcm == LcmUpTo(MaxTenor)

\* The value 1.0 of a discount factor, in the units discount factors, book
\* values and DV01s are counted in.
DFUnit == DenLcm * DayCount * RateScale

\* std::exp(n / (d * DayCount * RateScale)), as 1 + y, in units of 1/DFUnit.
ExpModel(n, d) == DFUnit + n * (DenLcm \div d)

get_discount_factor(rates, t) ==
    LET r == r_eff(rates, t) IN ExpModel(-(r.num * t), r.den)

\* A possible bug: the rate is added to the one stored (insert, else +=).
add_rate_accumulate(rates, tenor, rate) ==
    [k \in DOMAIN rates \cup {tenor} |->
        IF k = tenor THEN (IF k \in DOMAIN rates THEN FAdd(rates[k], rate) ELSE rate)
        ELSE rates[k]]

add_rate(rates, tenor, rate) ==
    [k \in DOMAIN rates \cup {tenor} |-> IF k = tenor THEN rate ELSE rates[k]]

\* bump_tenor up to its return: rates.at(tenor) += bump_amount.  The tenor
\* exists (rates.at throws std::out_of_range otherwise).
bump_tenor(rates, tenor, bump_amount) ==
    [rates EXCEPT ![tenor] = FAdd(@, bump_amount)]

\* The closure bump_tenor returns, run by ~finally.
unbump_tenor(rates, tenor, bump_amount) ==
    [rates EXCEPT ![tenor] = FSub(@, bump_amount)]

\* bump_curve up to its return: every tenor of get_tenors() is bumped.
bump_curve(rates, bump_amount) ==
    [k \in get_tenors(rates) |-> FAdd(rates[k], bump_amount)]

\* The closure bump_curve returns, run by ~finally: every tenor get_tenors()
\* yields when the closure runs is decremented.
unbump_curve(rates, bump_amount) ==
    [k \in get_tenors(rates) |-> FSub(rates[k], bump_amount)]

\* The finally object a bump returns: what its closure captured by value.
FinallyTenor(tenor, bump_amount) ==
    [kind |-> "tenor", tenor |-> tenor, bump_amount |-> bump_amount]

FinallyCurve(bump_amount) ==
    [kind |-> "curve", tenor |-> 0, bump_amount |-> bump_amount]

\* ~finally() { func(); }
run_finally(rates, f) ==
    IF f.kind = "tenor" THEN unbump_tenor(rates, f.tenor, f.bump_amount)
    ELSE unbump_curve(rates, f.bump_amount)

\* ====================================================== struct FXSpot
\* An FXSpot is its double spot, counted in whole units.
FXSpot_default == SpotDefault

set_spot(s) == s

get_spot(fx) == fx

\* A possible bug: the cross inverted.
cross_inverted(FX_base, FX_term) == FDiv(get_spot(FX_term), FX_base)

\* operator/ : spot / FX_term.get_spot()
cross(FX_base, FX_term) == FDiv(FX_base, get_spot(FX_term))

\* =============================================== struct DateNotionals
\* A ledger is its unordered_map<int, int> date_notionals and its int delta.
DateNotionals_default == [date_notionals |-> << >>, delta |-> 0]

get_maturities(trades) == DOMAIN trades.date_notionals

\* date_notionals[date] += notional overflows
add_trade_overflows(trades, date, notional) ==
    IntAddOverflows(IF date \in DOMAIN trades.date_notionals
                    THEN trades.date_notionals[date] ELSE 0, notional)

\* date_notionals[date] += notional
add_trade(trades, date, notional) ==
    [trades EXCEPT !.date_notionals =
        [d \in DOMAIN trades.date_notionals \cup {date} |->
            IF d = date
            THEN IntAddWrap(IF d \in DOMAIN trades.date_notionals
                            THEN trades.date_notionals[d] ELSE 0, notional)
            ELSE trades.date_notionals[d]]]

set_delta(trades, d) == [trades EXCEPT !.delta = d]

\* The effective tenors get_book_value hands to the discount function.
eff_dates(trades) == {date - trades.delta : date \in DOMAIN trades.date_notionals}

\* The sum over (date, notional) of notional * discount_factors(date - delta).
\* discount_factors is the injected function, given over the dates it is
\* asked for.
get_book_value(trades, discount_factors) ==
    SumOver([date \in DOMAIN trades.date_notionals |->
                trades.date_notionals[date] * discount_factors[date - trades.delta]],
            DOMAIN trades.date_notionals)


\* ======================================= class RiskManagementSystem<G5>
VARIABLES
    currency_rates,      \* unordered_map<Currency, InterestRates>
    currency_spot,       \* unordered_map<Currency, FXSpot>
    currency_notionals,  \* unordered_map<Currency, DateNotionals>
    delta,               \* int delta
    phase,               \* where the program is: the constructor's two loops,
                         \* between queries, inside get_DV01, or terminated
    log,                 \* the Log:: warning of the last operation, if any
    ret,                 \* the last query and what it returned
    frame,               \* the activation of get_DV01 in progress
    fx_lines,            \* the currencies an FX line was ingested for (history)
    curve,               \* an InterestRates object driven on its own: its rates
    live,                \* the finally object of its bump, while it is held
    cv_phase,            \* where its driver is: build, bumped, released
    cv_ret,              \* the last operation on it and what it returned
    ledger,              \* a DateNotionals object driven on its own
    trades_added,        \* the add_trade calls made on it so far (history)
    ld_phase,            \* where its driver is: open, or terminated by a trap
    ld_ret               \* the last operation on it and what it returned

engine_vars == <<currency_rates, currency_spot, currency_notionals, delta,
                 phase, log, ret, frame, fx_lines>>

curve_vars == <<curve, live, cv_phase, cv_ret>>

ledger_vars == <<ledger, trades_added, ld_phase, ld_ret>>

vars == <<engine_vars, curve_vars, ledger_vars>>

\* ------------------------------------------------------- the feeds' lines
\* The currency strings, tenor counts and units, rates, spots, notionals and
\* dates the lines of the model's feeds carry.
FeedCcyStrs == {"EUR", "USD", "XXX"}

RateCcyStrs == {"EUR", "XXX"}

FeedUnits == {"D", "Q"}

\* The tenor counts are strings of decimal digits.
FeedTenors == {<<1>>, <<MaxTenor>>}

\* A count that times 7 (a week) is 2^33 - 1, past INT_MAX, and a count that
\* is itself past INT_MAX.
OverflowingWeeks == <<1, 2, 2, 7, 1, 3, 3, 5, 1, 3>>

TooManyDigits == <<9, 9, 9, 9, 9, 9, 9, 9, 9, 9, 9>>

WideTenors == FeedTenors \cup {OverflowingWeeks, TooManyDigits}

WideUnits == {"D", "W", "Q"}

\* Three rates: one a bump of EPS and its release do not restore, one they
\* restore, and one so large that rounding absorbs a bump of EPS either way.
DriftRate == Pow2(Precision) - 4

StableRate == 3 * Pow2(Precision - 1)

BigRate == 5 * Pow2(Precision + 1)

FeedRates == {DriftRate, StableRate, BigRate}

FeedSpots == {0, 2}

FeedNotionals == {1, 2}

FeedDates == {ValuationDelta - 1, ValuationDelta + 1, ValuationDelta + MaxTenor}

\* The arguments the model's queries are called with.
QueryCcys == {"EUR", "USD", "CAD"}

QueryTenors == {-1, 0, 1, 2, MaxTenor + 1}

NoRet == [op |-> "none"]

NoFrame == [step |-> "none"]

Returned(op, args, kind, value) ==
    [op |-> op, args |-> args, kind |-> kind, value |-> value]

\* G5::to_ccy: the currency of a string, or no currency.
to_ccy(ccy_str) ==
    IF ccy_str \in Currency THEN [has_value |-> TRUE, value |-> ccy_str]
    ELSE [has_value |-> FALSE, value |-> ""]

\* The days of a tenor unit character, 0 for an unrecognized one.
unit_days(name) ==
    IF name = "D" THEN 1
    ELSE IF name = "W" THEN 7
    ELSE IF name = "M" THEN 30
    ELSE IF name = "Y" THEN 360
    ELSE 0

unit_known(name) == name \in {"D", "W", "M", "Y"}

\* ------------------------------------------------------------ the checks
check_rates(ccy) == ccy \in DOMAIN currency_rates

check_maturities(ccy) == ccy \in DOMAIN currency_notionals

\* A possible bug: the tenor 0 is rejected too.
check_tenor_val_strict(tenor) == tenor > 0

\* A possible bug: a tenor of one day before the valuation date passes.
check_tenor_val_lenient(tenor) == tenor >= -1

check_tenor_val(tenor) == tenor >= 0

\* A possible bug: a tenor that can be interpolated passes the check.
check_tenor_rate_range(ccy, tenor) ==
    /\ check_rates(ccy)
    /\ \E k \in DOMAIN currency_rates[ccy] : k >= tenor

check_tenor_rate(ccy, tenor) ==
    /\ check_rates(ccy)
    /\ check_tenor(currency_rates[ccy], tenor)

check_fx(ccy) == ccy \in DOMAIN currency_spot

\* The warning a failed check logs.
warn_of_DV01_tenor(ccy, tenor) ==
    IF ~check_rates(ccy) THEN "warn_rates"
    ELSE IF ~check_tenor_rate(ccy, tenor) THEN "warn_tenor_rate"
    ELSE "warn_fx"

\* ------------------------------------------------------------ constructor
\* The members' initializers: currency_spot starts with a default FXSpot for
\* USD; delta is not initialized (and not read before it is assigned).
EngineInit ==
    /\ currency_rates = << >>
    /\ currency_spot = [c \in {"USD"} |-> FXSpot_default]
    /\ currency_notionals = << >>
    /\ delta \in {0, 1}
    /\ phase = "rates"
    /\ log = ""
    /\ ret = NoRet
    /\ frame = NoFrame
    /\ fx_lines = {}

\* m[ccy] of an unordered_map: the entry, default-constructed if absent.
Entry(m, ccy, default) == IF ccy \in DOMAIN m THEN m[ccy] ELSE default

Put(m, ccy, v) == [c \in DOMAIN m \cup {ccy} |-> IF c = ccy THEN v ELSE m[c]]

\* parse_rate on a line IR.<n><name>.<ccy_str> <rate> that rates_format
\* matches.  std::stoi throws std::out_of_range, out of the constructor, when
\* the count is no int; tenor *= 7 (30, 360) may overflow, and then the build
\* either keeps the low 32 bits of the product or traps.  The model takes
\* the tenors up to MaxTenor, and the overflowing ones.
parse_rate(n, name, ccy_str, rate) ==
    /\ phase = "rates"
    /\ UNCHANGED <<curve_vars, ledger_vars>>
    /\ UNCHANGED <<currency_spot, currency_notionals, delta, frame, fx_lines>>
    /\ IF stoi(n).threw
       THEN /\ phase' = "terminated"
            /\ ret' = Returned("RiskManagementSystem", << >>, "throw", "std::out_of_range")
            /\ log' = ""
            /\ UNCHANGED currency_rates
       ELSE LET tenor == stoi(n).number IN
            /\ IF IntMulOverflows(tenor, unit_days(name)) THEN TRUE
               ELSE tenor * unit_days(name) <= MaxTenor
            /\ IF ~check_tenor_val(tenor)
               THEN /\ log' = "warn_tenor_val"
                    /\ UNCHANGED <<currency_rates, phase, ret>>
               ELSE IF ~unit_known(name)
               THEN /\ log' = "warn_tenor_char"
                    /\ UNCHANGED <<currency_rates, phase, ret>>
               ELSE \/ /\ IntMulOverflows(tenor, unit_days(name))
                       /\ phase' = "terminated"
                       /\ ret' = Returned("RiskManagementSystem", << >>, "trap", "tenor *=")
                       /\ log' = ""
                       /\ UNCHANGED currency_rates
                    \/ /\ UNCHANGED <<phase, ret>>
                       /\ IF ~to_ccy(ccy_str).has_value
                          THEN /\ log' = "warn_ccy_str"
                               /\ UNCHANGED currency_rates
                          ELSE /\ currency_rates' =
                                    Put(currency_rates, to_ccy(ccy_str).value,
                                        add_rate(Entry(currency_rates, to_ccy(ccy_str).value,
                                                       EmptyRates),
                                                 IntMulWrap(tenor, unit_days(name)), rate))
                               /\ log' = ""

\* parse_fx on a line FX.SPOT.<ccy_str> <spot> that fx_format matches
parse_fx(ccy_str, spot) ==
    /\ phase = "rates"
    /\ UNCHANGED <<curve_vars, ledger_vars>>
    /\ IF ~to_ccy(ccy_str).has_value
       THEN /\ log' = "warn_ccy_str"
            /\ UNCHANGED <<currency_spot, fx_lines>>
       ELSE /\ currency_spot' = Put(currency_spot, to_ccy(ccy_str).value, set_spot(spot))
            /\ fx_lines' = fx_lines \cup {to_ccy(ccy_str).value}
            /\ log' = ""
    /\ UNCHANGED <<currency_rates, currency_notionals, delta, phase, ret, frame>>

\* A line of the rates feed that matches neither format
warn_rate_line ==
    /\ phase = "rates"
    /\ UNCHANGED <<curve_vars, ledger_vars>>
    /\ log' = "warn_line"
    /\ UNCHANGED <<currency_rates, currency_spot, currency_notionals, delta, phase,
                   ret, frame, fx_lines>>

\* The rates feed is exhausted: delta = 42940, the portfolio's first line is
\* discarded.
end_rates ==
    /\ phase = "rates"
    /\ UNCHANGED <<curve_vars, ledger_vars>>
    /\ delta' = ValuationDelta
    /\ phase' = "portfolio"
    /\ log' = ""
    /\ UNCHANGED <<currency_rates, currency_spot, currency_notionals, ret, frame,
                   fx_lines>>

\* The total notional of a ledger (the model caps it).
Book(m, ccy) ==
    IF ccy \in DOMAIN m
    THEN SumOver(m[ccy].date_notionals, DOMAIN m[ccy].date_notionals) ELSE 0

\* parse_trade on a line <id>;<notional>;<ccy_str>;<payment_date>; that
\* trade_format matches
parse_trade(notional, ccy_str, payment_date) ==
    /\ phase = "portfolio"
    /\ UNCHANGED <<curve_vars, ledger_vars>>
    /\ IF ~to_ccy(ccy_str).has_value
       THEN /\ log' = "warn_ccy_str"
            /\ UNCHANGED currency_notionals
       ELSE IF ~check_tenor_val(payment_date - delta)
       THEN /\ log' = "warn_tenor_val"
            /\ UNCHANGED currency_notionals
       ELSE /\ Book(currency_notionals, to_ccy(ccy_str).value) + notional <= MaxBook
            /\ currency_notionals' =
                 Put(currency_notionals, to_ccy(ccy_str).value,
                     add_trade(IF ~check_maturities(to_ccy(ccy_str).value)
                               THEN set_delta(DateNotionals_default, delta)
                               ELSE currency_notionals[to_ccy(ccy_str).value],
                               payment_date, notional))
            /\ log' = ""
    /\ UNCHANGED <<currency_rates, currency_spot, delta, phase, ret, frame, fx_lines>>

\* A line of the portfolio feed that does not match trade_format
warn_trade_line ==
    /\ phase = "portfolio"
    /\ UNCHANGED <<curve_vars, ledger_vars>>
    /\ log' = "warn_line"
    /\ UNCHANGED <<currency_rates, currency_spot, currency_notionals, delta, phase,
                   ret, frame, fx_lines>>

\* The portfolio feed is exhausted: the constructor returns.
end_portfolio ==
    /\ phase = "portfolio"
    /\ UNCHANGED <<curve_vars, ledger_vars>>
    /\ phase' = "ready"
    /\ log' = ""
    /\ UNCHANGED <<currency_rates, currency_spot, currency_notionals, delta, ret,
                   frame, fx_lines>>


\* ---------------------------------------------------------------- queries
\* The sequences that list each element of a set once, in any order.
Orders(S) ==
    {q \in [1..Cardinality(S) -> S] : \A x \in S : \E i \in 1..Cardinality(S) : q[i] = x}

\* The elements of a set of integers in ascending order (std::map's order).
RECURSIVE Ascending(_)
Ascending(S) == IF S = {} THEN << >> ELSE <<Min(S)>> \o Ascending(S \ {Min(S)})

\* get_maturities(ccy): the ledger's dates, in the unordered_map's order.
RMS_get_maturities(ccy) ==
    /\ phase = "ready"
    /\ UNCHANGED <<curve_vars, ledger_vars>>
    /\ IF ~check_maturities(ccy)
       THEN ret' = Returned("get_maturities", <<ccy>>, "vector", << >>)
       ELSE \E k \in Orders(get_maturities(currency_notionals[ccy])) :
                ret' = Returned("get_maturities", <<ccy>>, "vector", k)
    /\ log' = ""
    /\ frame' = NoFrame
    /\ UNCHANGED <<currency_rates, currency_spot, currency_notionals, delta, phase,
                   fx_lines>>

\* get_tenors(ccy): the curve's tenors, in the map's order.
RMS_get_tenors(ccy) ==
    /\ phase = "ready"
    /\ UNCHANGED <<curve_vars, ledger_vars>>
    /\ IF ~check_rates(ccy)
       THEN /\ ret' = Returned("get_tenors", <<ccy>>, "vector", << >>)
            /\ log' = "warn_rates"
       ELSE /\ ret' = Returned("get_tenors", <<ccy>>, "vector",
                               Ascending(get_tenors(currency_rates[ccy])))
            /\ log' = ""
    /\ frame' = NoFrame
    /\ UNCHANGED <<currency_rates, currency_spot, currency_notionals, delta, phase,
                   fx_lines>>

\* get_discount_factor(ccy, tenor)
RMS_get_discount_factor(ccy, tenor) ==
    /\ phase = "ready"
    /\ UNCHANGED <<curve_vars, ledger_vars>>
    /\ IF ~check_rates(ccy)
       THEN /\ ret' = Returned("get_discount_factor", <<ccy, tenor>>, "nullopt", 0)
            /\ log' = "warn_rates"
       ELSE IF ~check_tenor_val(tenor)
       THEN /\ ret' = Returned("get_discount_factor", <<ccy, tenor>>, "nullopt", 0)
            /\ log' = "warn_tenor_val"
       ELSE /\ ret' = Returned("get_discount_factor", <<ccy, tenor>>, "value",
                               get_discount_factor(currency_rates[ccy], tenor))
            /\ log' = ""
    /\ frame' = NoFrame
    /\ UNCHANGED <<currency_rates, currency_spot, currency_notionals, delta, phase,
                   fx_lines>>

\* What get_fx_spot({base, term}) returns.
fx_spot(base, term) ==
    IF ~check_fx(base) \/ ~check_fx(term)
    THEN [has_value |-> FALSE, value |-> NaN]
    ELSE [has_value |-> TRUE, value |-> cross(currency_spot[base], currency_spot[term])]

\* get_fx_spot({base, term})
RMS_get_fx_spot(base, term) ==
    /\ phase = "ready"
    /\ UNCHANGED <<curve_vars, ledger_vars>>
    /\ ret' = Returned("get_fx_spot", <<base, term>>,
                       IF fx_spot(base, term).has_value THEN "value" ELSE "nullopt",
                       fx_spot(base, term).value)
    /\ log' = IF fx_spot(base, term).has_value THEN "" ELSE "warn_fx"
    /\ frame' = NoFrame
    /\ UNCHANGED <<currency_rates, currency_spot, currency_notionals, delta, phase,
                   fx_lines>>


\* --------------------------------------------------------------- get_DV01
\* The two operands get_bumped_value(EPS) and get_bumped_value(-EPS) of the
\* subtraction are evaluated in either order (C++ leaves it unspecified).
BumpOrders == {<<EPS, -EPS>>, <<-EPS, EPS>>}

\* The activation of a get_DV01 call that passed its checks.  todo: the
\* bumps still to value, in order; guards: the live finally objects
\* (unbump_later); values: the book value returned for each bump; events and
\* at record, for the properties, the acquisitions and releases so far and
\* the curve each bump was applied to.
NewFrame(kind, ccy, tenor, todo) ==
    [step |-> "bump", kind |-> kind, ccy |-> ccy, tenor |-> tenor, todo |-> todo,
     guards |-> << >>, values |-> [b \in {EPS, -EPS} |-> 0], events |-> << >>,
     at |-> [b \in {EPS, -EPS} |-> EmptyRates]]

\* A possible bug: the sign of the central difference is not flipped.
DV01_value_unnegated(fx, up, down) == FHalve(FMul(fx, up - down), 2)

\* A possible bug: the difference of the two values is not halved.
DV01_value_unhalved(fx, up, down) == FMul(fx, -(up - down))

\* get_fx_spot({USD, ccy}).value() * -(get_bumped_value(EPS) -
\* get_bumped_value(-EPS)) / 2
DV01_value(fx, up, down) == FHalve(FMul(fx, -(up - down)), 2)

\* The discount_fn of get_bumped_value, over the dates the ledger asks for.
discount_fn(rates, trades) ==
    [tenor \in eff_dates(trades) |-> get_discount_factor(rates, tenor)]

DV01_tenor_ok(ccy, tenor) == check_tenor_rate(ccy, tenor) /\ check_fx(ccy)

DV01_curve_ok(ccy) == check_rates(ccy) /\ check_fx(ccy)

\* get_DV01(ccy, tenor) up to the first get_bumped_value: the checks, then
\* currency_rates.at(ccy) and currency_notionals.at(ccy), which throws
\* std::out_of_range when ccy has no ledger.
RMS_get_DV01_tenor(ccy, tenor) ==
    /\ phase = "ready"
    /\ UNCHANGED <<curve_vars, ledger_vars>>
    /\ IF ~DV01_tenor_ok(ccy, tenor)
       THEN /\ ret' = Returned("get_DV01", <<ccy, tenor>>, "nullopt", 0)
            /\ log' = warn_of_DV01_tenor(ccy, tenor)
            /\ frame' = NoFrame
            /\ UNCHANGED phase
       ELSE IF ccy \notin DOMAIN currency_notionals
       THEN /\ ret' = Returned("get_DV01", <<ccy, tenor>>, "throw", "std::out_of_range")
            /\ log' = ""
            /\ frame' = NoFrame
            /\ phase' = "terminated"
       ELSE /\ \E todo \in BumpOrders : frame' = NewFrame("tenor", ccy, tenor, todo)
            /\ ret' = NoRet
            /\ log' = ""
            /\ phase' = "dv01"
    /\ UNCHANGED <<currency_rates, currency_spot, currency_notionals, delta, fx_lines>>

\* get_DV01(ccy) up to the first get_bumped_value
RMS_get_DV01_curve(ccy) ==
    /\ phase = "ready"
    /\ UNCHANGED <<curve_vars, ledger_vars>>
    /\ IF ~DV01_curve_ok(ccy)
       THEN /\ ret' = Returned("get_DV01", <<ccy>>, "nullopt", 0)
            /\ log' = IF ~check_rates(ccy) THEN "warn_rates" ELSE "warn_fx"
            /\ frame' = NoFrame
            /\ UNCHANGED phase
       ELSE IF ccy \notin DOMAIN currency_notionals
       THEN /\ ret' = Returned("get_DV01", <<ccy>>, "throw", "std::out_of_range")
            /\ log' = ""
            /\ frame' = NoFrame
            /\ phase' = "terminated"
       ELSE /\ \E todo \in BumpOrders : frame' = NewFrame("curve", ccy, 0, todo)
            /\ ret' = NoRet
            /\ log' = ""
            /\ phase' = "dv01"
    /\ UNCHANGED <<currency_rates, currency_spot, currency_notionals, delta, fx_lines>>

\* get_bumped_value(bump): auto unbump_later = rates.bump_tenor(tenor, bump)
\* or rates.bump_curve(bump)
DV01_bump ==
    /\ phase = "dv01"
    /\ UNCHANGED <<curve_vars, ledger_vars>>
    /\ frame.step = "bump"
    /\ LET bump == Head(frame.todo)
           rates == currency_rates[frame.ccy]
       IN  /\ currency_rates' =
                [currency_rates EXCEPT ![frame.ccy] =
                    IF frame.kind = "tenor" THEN bump_tenor(rates, frame.tenor, bump)
                    ELSE bump_curve(rates, bump)]
           /\ frame' =
                [frame EXCEPT
                    !.step = "value",
                    !.guards = Append(@, IF frame.kind = "tenor"
                                         THEN FinallyTenor(frame.tenor, bump)
                                         ELSE FinallyCurve(bump)),
                    !.events = Append(@, <<"acquire", bump>>),
                    !.at = [@ EXCEPT ![bump] = rates]]
    /\ UNCHANGED <<currency_spot, currency_notionals, delta, phase, log, ret, fx_lines>>

\* get_bumped_value(bump): the value of return trades.get_book_value(discount_fn)
DV01_book_value ==
    /\ phase = "dv01"
    /\ UNCHANGED <<curve_vars, ledger_vars>>
    /\ frame.step = "value"
    /\ frame' =
         [frame EXCEPT
             !.step = "unbump",
             !.values = [@ EXCEPT ![Head(frame.todo)] =
                 get_book_value(currency_notionals[frame.ccy],
                                discount_fn(currency_rates[frame.ccy],
                                            currency_notionals[frame.ccy]))]]
    /\ UNCHANGED <<currency_rates, currency_spot, currency_notionals, delta, phase,
                   log, ret, fx_lines>>

\* A possible bug: the finally object outlives get_bumped_value (it is kept
\* alive by the caller), so the bump is still applied when the next one is made.
DV01_unbump_leak ==
    /\ phase = "dv01"
    /\ UNCHANGED <<curve_vars, ledger_vars>>
    /\ frame.step = "unbump"
    /\ frame' =
         [frame EXCEPT
             !.step = IF Tail(frame.todo) = << >> THEN "return" ELSE "bump",
             !.todo = Tail(@)]
    /\ UNCHANGED <<currency_rates, currency_spot, currency_notionals, delta, phase,
                   log, ret, fx_lines>>

\* get_bumped_value(bump) returns: ~finally runs the closure of unbump_later
DV01_unbump ==
    /\ phase = "dv01"
    /\ UNCHANGED <<curve_vars, ledger_vars>>
    /\ frame.step = "unbump"
    /\ LET f == frame.guards[Len(frame.guards)] IN
       /\ currency_rates' =
            [currency_rates EXCEPT ![frame.ccy] = run_finally(@, f)]
       /\ frame' =
            [frame EXCEPT
                !.step = IF Tail(frame.todo) = << >> THEN "return" ELSE "bump",
                !.todo = Tail(@),
                !.guards = SubSeq(@, 1, Len(@) - 1),
                !.events = Append(@, <<"release", f.bump_amount>>)]
    /\ UNCHANGED <<currency_spot, currency_notionals, delta, phase, log, ret, fx_lines>>

\* get_DV01 returns the optional holding the converted central difference
DV01_return ==
    /\ phase = "dv01"
    /\ UNCHANGED <<curve_vars, ledger_vars>>
    /\ frame.step = "return"
    /\ ret' = Returned("get_DV01",
                       IF frame.kind = "tenor" THEN <<frame.ccy, frame.tenor>>
                       ELSE <<frame.ccy>>,
                       "value",
                       DV01_value(fx_spot("USD", frame.ccy).value,
                                  frame.values[EPS], frame.values[-EPS]))
    /\ frame' = [frame EXCEPT !.step = "done"]
    /\ phase' = "ready"
    /\ UNCHANGED <<currency_rates, currency_spot, currency_notionals, delta, log, fx_lines>>

\* ------------------------------------- an InterestRates object on its own
\* The operations of InterestRates, called by a driver that keeps the
\* contract of get_discount_factor (a non-empty curve).  The driver builds a
\* curve with add_rate, takes one bump and holds its finally object, may add
\* a rate meanwhile, and lets the object go out of scope; it asks for
\* discount factors at any point.
TenorDomain == {0, 1, MaxTenor}

RateDomain == {1, DriftRate, StableRate}

BumpAmounts == {EPS, -EPS, 1}

TimeDomain == 0..(MaxTenor + 1)

CurveInit ==
    /\ curve = EmptyRates
    /\ live = << >>
    /\ cv_phase = "build"
    /\ cv_ret = NoRet

\* add_rate(tenor, rate); adding while the bump is held marks it disturbed
CV_add_rate(tenor, rate) ==
    /\ \/ cv_phase = "build"
       \/ cv_phase = "bumped" /\ ~live[1].disturbed
    /\ curve' = add_rate(curve, tenor, rate)
    /\ live' = [i \in DOMAIN live |-> [live[i] EXCEPT !.disturbed = TRUE]]
    /\ cv_ret' = [op |-> "add_rate", tenor |-> tenor, rate |-> rate, before |-> curve]
    /\ UNCHANGED <<cv_phase, engine_vars, ledger_vars>>

CV_get_discount_factor(t) ==
    /\ curve # EmptyRates
    /\ cv_ret' = [op |-> "get_discount_factor", t |-> t, r_eff |-> r_eff(curve, t),
                  value |-> get_discount_factor(curve, t)]
    /\ UNCHANGED <<curve, live, cv_phase, engine_vars, ledger_vars>>

\* auto guard = bump_tenor(tenor, bump_amount); rates.at throws when the
\* tenor is not stored, and then nothing is bumped and no finally is made.
CV_bump_tenor(tenor, bump_amount) ==
    /\ cv_phase = "build"
    /\ UNCHANGED <<engine_vars, ledger_vars>>
    /\ IF ~check_tenor(curve, tenor)
       THEN /\ cv_ret' = [op |-> "bump_tenor", threw |-> TRUE, before |-> curve]
            /\ UNCHANGED <<curve, live, cv_phase>>
       ELSE /\ curve' = bump_tenor(curve, tenor, bump_amount)
            /\ live' = <<[f |-> FinallyTenor(tenor, bump_amount),
                          before |-> curve, disturbed |-> FALSE]>>
            /\ cv_ret' = [op |-> "bump_tenor", threw |-> FALSE, before |-> curve]
            /\ cv_phase' = "bumped"

\* auto guard = bump_curve(bump_amount)
CV_bump_curve(bump_amount) ==
    /\ cv_phase = "build"
    /\ UNCHANGED <<engine_vars, ledger_vars>>
    /\ curve' = bump_curve(curve, bump_amount)
    /\ live' = <<[f |-> FinallyCurve(bump_amount),
                  before |-> curve, disturbed |-> FALSE]>>
    /\ cv_ret' = [op |-> "bump_curve"]
    /\ cv_phase' = "bumped"

\* The guard goes out of scope: ~finally runs its closure.
CV_release ==
    /\ cv_phase = "bumped"
    /\ UNCHANGED <<engine_vars, ledger_vars>>
    /\ curve' = run_finally(curve, live[1].f)
    /\ live' = << >>
    /\ cv_ret' = [op |-> "release", f |-> live[1].f, before |-> live[1].before,
                  disturbed |-> live[1].disturbed, held |-> curve]
    /\ cv_phase' = "released"

\* ------------------------------------- a DateNotionals object on its own
\* The operations of DateNotionals, called by a driver that adds up to
\* MaxTrades trades and asks for the maturities.
LedgerDates == {ValuationDelta + 1, ValuationDelta + MaxTenor}

LedgerNotionals == {-100, 100, 200, INT_MAX}

LedgerInit ==
    /\ ledger = DateNotionals_default
    /\ trades_added = << >>
    /\ ld_phase = "open"
    /\ ld_ret = NoRet

\* add_trade(date, notional); when the += overflows, the build either keeps
\* the low 32 bits of the sum or traps
LD_add_trade(date, notional) ==
    /\ ld_phase = "open"
    /\ Len(trades_added) < MaxTrades
    /\ trades_added' = Append(trades_added, <<date, notional>>)
    /\ ld_ret' = [op |-> "add_trade", before |-> ledger]
    /\ \/ /\ ledger' = add_trade(ledger, date, notional)
          /\ UNCHANGED ld_phase
       \/ /\ add_trade_overflows(ledger, date, notional)
          /\ ld_phase' = "terminated"
          /\ UNCHANGED ledger
    /\ UNCHANGED <<engine_vars, curve_vars>>

\* get_maturities(): the dates, in the unordered_map's order
LD_get_maturities ==
    /\ ld_phase = "open"
    /\ \E q \in Orders(get_maturities(ledger)) :
          ld_ret' = [op |-> "get_maturities", value |-> q]
    /\ UNCHANGED <<ledger, trades_added, ld_phase, engine_vars, curve_vars>>

\* ------------------------------------------------------ the specifications
Ingest ==
    \/ \E n \in FeedTenors, name \in FeedUnits, ccy_str \in RateCcyStrs, rate \in FeedRates :
          parse_rate(n, name, ccy_str, rate)
    \/ \E ccy_str \in FeedCcyStrs, spot \in FeedSpots : parse_fx(ccy_str, spot)
    \/ warn_rate_line
    \/ end_rates
    \/ \E notional \in FeedNotionals, ccy_str \in RateCcyStrs, payment_date \in FeedDates :
          parse_trade(notional, ccy_str, payment_date)
    \/ warn_trade_line
    \/ end_portfolio

Query ==
    \/ \E ccy \in QueryCcys : RMS_get_maturities(ccy)
    \/ \E ccy \in QueryCcys : RMS_get_tenors(ccy)
    \/ \E ccy \in QueryCcys, tenor \in QueryTenors : RMS_get_discount_factor(ccy, tenor)
    \/ \E base \in QueryCcys, term \in QueryCcys : RMS_get_fx_spot(base, term)
    \/ \E ccy \in QueryCcys, tenor \in QueryTenors : RMS_get_DV01_tenor(ccy, tenor)
    \/ \E ccy \in QueryCcys : RMS_get_DV01_curve(ccy)
    \/ DV01_bump
    \/ DV01_book_value
    \/ DV01_unbump
    \/ DV01_return

\* The engine: construction from the two feeds, then queries.
Init == EngineInit /\ CurveInit /\ LedgerInit

Next == Ingest \/ Query

Spec == Init /\ [][Next]_vars

\* An InterestRates object on its own.
CurveOps ==
    \/ \E tenor \in TenorDomain, rate \in RateDomain : CV_add_rate(tenor, rate)
    \/ \E t \in TimeDomain : CV_get_discount_factor(t)
    \/ \E tenor \in TenorDomain, bump_amount \in BumpAmounts :
          CV_bump_tenor(tenor, bump_amount)
    \/ \E bump_amount \in BumpAmounts : CV_bump_curve(bump_amount)
    \/ CV_release

InitCurve == EngineInit /\ delta = 0 /\ CurveInit /\ LedgerInit

NextCurve == CurveOps

SpecCurve == InitCurve /\ [][NextCurve]_vars

\* The construction of the engine from feeds whose rate lines also carry
\* tenor counts that overflow.
IngestWide ==
    \/ \E n \in WideTenors, name \in WideUnits, ccy_str \in RateCcyStrs, rate \in FeedRates :
          parse_rate(n, name, ccy_str, rate)
    \/ \E ccy_str \in FeedCcyStrs, spot \in FeedSpots : parse_fx(ccy_str, spot)
    \/ warn_rate_line
    \/ end_rates
    \/ \E notional \in FeedNotionals, ccy_str \in RateCcyStrs, payment_date \in FeedDates :
          parse_trade(notional, ccy_str, payment_date)
    \/ warn_trade_line
    \/ end_portfolio

InitFeed == EngineInit /\ CurveInit /\ LedgerInit

NextFeed == IngestWide

SpecFeed == InitFeed /\ [][NextFeed]_vars

\* A DateNotionals object on its own.
LedgerOps ==
    \/ \E date \in LedgerDates, notional \in LedgerNotionals : LD_add_trade(date, notional)
    \/ LD_get_maturities

InitLedger == EngineInit /\ delta = 0 /\ CurveInit /\ LedgerInit

NextLedger == LedgerOps

SpecLedger == InitLedger /\ [][NextLedger]_vars

\* ================================================================ claims
\* What a get_DV01 call just returned, by its form.
DV01Returned == ret.op = "get_DV01" /\ phase \in {"ready", "terminated"}

DV01Tenor == DV01Returned /\ Len(ret.args) = 2

DV01Curve == DV01Returned /\ Len(ret.args) = 1

\* C1.  get_DV01 (either form) returns a value whenever ccy has a curve (with
\* a rate point at exactly the tenor, for the single-tenor form) and a spot
\* entry, returns "no result" otherwise, and never raises.  The code raises
\* std::out_of_range when ccy has a curve and a spot entry but no ledger.
C1_DV01ValueOrNoResultNeverRaises ==
    /\ DV01Returned => ret.kind # "throw"
    /\ DV01Tenor =>
          (ret.kind = "value" <=>
              /\ ret.args[1] \in DOMAIN currency_rates
              /\ ret.args[2] \in DOMAIN currency_rates[ret.args[1]]
              /\ ret.args[1] \in DOMAIN currency_spot)
    /\ DV01Curve =>
          (ret.kind = "value" <=>
              /\ ret.args[1] \in DOMAIN currency_rates
              /\ ret.args[1] \in DOMAIN currency_spot)

\* C2.  After a complete bump_tenor/release or bump_curve/release cycle on a
\* non-empty curve, every stored rate is back at its
\* pre-bump value, the stored tenors are unchanged, and so
\* get_discount_factor(t) is what it was before the bump, for every t.
C2_BumpCycleRestoresCurve ==
    (cv_ret.op = "release" /\ ~cv_ret.disturbed /\ cv_ret.before # EmptyRates) =>
        /\ curve = cv_ret.before
        /\ \A t \in TimeDomain :
              get_discount_factor(curve, t) = get_discount_factor(cv_ret.before, t)

\* C3.  Within a get_DV01 call, every bump acquired on the curve is released
\* exactly once, by the finally object made for it, and the first bump is
\* released before the second is acquired: the acquisitions and releases
\* form a prefix of acquire b1, release b1, acquire b2, release b2, at most
\* one bump is held at any point, none when get_DV01 returns, and a call that
\* returns no value acquired none.
BumpProtocol(o) ==
    << <<"acquire", o[1]>>, <<"release", o[1]>>, <<"acquire", o[2]>>, <<"release", o[2]>> >>

IsPrefix(p, q) == Len(p) <= Len(q) /\ \A i \in 1..Len(p) : p[i] = q[i]

C3_BumpsReleasedOnceNeverNested ==
    /\ frame.step # "none" =>
        /\ \E o \in BumpOrders : IsPrefix(frame.events, BumpProtocol(o))
        /\ Len(frame.guards) = Len(frame.events) % 2
        /\ \A i \in 1..Len(frame.guards) :
              /\ frame.guards[i].bump_amount = frame.events[Len(frame.events)][2]
              /\ frame.guards[i].kind = frame.kind
              /\ frame.guards[i].tenor = frame.tenor
        /\ frame.step = "done" => Len(frame.events) = 4 /\ frame.guards = << >>
    /\ (DV01Returned /\ ret.kind = "value") => frame.step = "done"
    /\ (DV01Returned /\ ret.kind # "value") => frame = NoFrame
    /\ phase = "ready" => frame.step \in {"none", "done"}

C3_Witness == DV01Returned /\ ret.kind = "value" /\ Len(frame.events) = 4

\* C4.  When get_DV01 succeeds it returns (spot(USD) / spot(ccy)) *
\* -(V(+EPS) - V(-EPS)) / 2, where V(b) is the sum over the ledger's (date,
\* notional) of notional * discount_factor(date - delta) on the curve with
\* the bump b applied (to the rate at the requested tenor, or to every rate)
\* and not yet released.
BumpedCurve(b) ==
    IF frame.kind = "tenor"
    THEN [k \in DOMAIN frame.at[b] |->
             IF k = frame.tenor THEN FAdd(frame.at[b][k], b) ELSE frame.at[b][k]]
    ELSE [k \in DOMAIN frame.at[b] |-> FAdd(frame.at[b][k], b)]

BookValueOn(rates, trades) ==
    SumOver([d \in DOMAIN trades.date_notionals |->
                trades.date_notionals[d] * get_discount_factor(rates, d - delta)],
            DOMAIN trades.date_notionals)

CentralDifference ==
    -(BookValueOn(BumpedCurve(EPS), currency_notionals[frame.ccy])
      - BookValueOn(BumpedCurve(-EPS), currency_notionals[frame.ccy]))

C4_DV01IsConvertedCentralDifference ==
    (DV01Returned /\ ret.kind = "value") =>
        LET usd == currency_spot["USD"]
            loc == currency_spot[frame.ccy]
        IN  IF loc # 0
            THEN /\ ret.value.k = "fin"
                 /\ ret.value.n * (loc * 2) = ret.value.d * (usd * CentralDifference)
            ELSE IF usd = 0 \/ CentralDifference = 0
            THEN ret.value.k = "nan"
            ELSE ret.value.k = "inf" /\ ret.value.s = Sgn(CentralDifference)

C4_Witness ==
    /\ DV01Returned
    /\ ret.kind = "value"
    /\ ret.value.k = "fin"
    /\ ret.value.n # 0
    /\ currency_spot["USD"] # currency_spot[frame.ccy]
    /\ Cardinality(DOMAIN currency_notionals[frame.ccy].date_notionals) = 2

\* C5.  For a ledger of strictly positive notionals at strictly positive
\* effective tenors, a curve of positive rates and a positive spot, the
\* parallel-shift get_DV01(ccy) was claimed to be negative.
PositiveBook ==
    /\ DV01Curve
    /\ ret.kind = "value"
    /\ \A d \in DOMAIN currency_notionals[frame.ccy].date_notionals :
          /\ currency_notionals[frame.ccy].date_notionals[d] > 0
          /\ d - currency_notionals[frame.ccy].delta > 0
    /\ \A k \in DOMAIN frame.at[frame.events[1][2]] : frame.at[frame.events[1][2]][k] > 0
    /\ currency_spot[frame.ccy] > 0

C5_ParallelDV01Negative == PositiveBook => FSign(ret.value) = -1

\* C5, as amended.  Under the same conditions the parallel-shift result is
\* never negative: the book value under the upward bump is at most the one
\* under the downward bump, and the result is positive whenever the two
\* differ and USD's spot is positive too.
C5_ParallelDV01NotNegative ==
    PositiveBook =>
        /\ frame.values[EPS] <= frame.values[-EPS]
        /\ FSign(ret.value) \in {0, 1}
        /\ (frame.values[EPS] # frame.values[-EPS] /\ currency_spot["USD"] > 0)
              => FSign(ret.value) = 1

C5_Witness ==
    /\ PositiveBook
    /\ FSign(ret.value) = 1
    /\ Cardinality(DOMAIN currency_rates[frame.ccy]) = 2

\* C6.  get_DV01(ccy, tenor) returns "no result" whenever the curve of ccy
\* has no rate point at exactly tenor (a tenor between two stored points
\* included), and then no bump is applied and no rate point is created: the
\* curves are what they were before the call.
C6_NoExactTenorNoResultNoBump ==
    [][\A ccy \in QueryCcys, tenor \in QueryTenors :
          (/\ phase = "ready"
           /\ ccy \in DOMAIN currency_rates
           /\ tenor \notin DOMAIN currency_rates[ccy]
           /\ RMS_get_DV01_tenor(ccy, tenor))
          => /\ phase' = "ready"
             /\ frame' = NoFrame
             /\ currency_rates' = currency_rates
             /\ ret'.kind = "nullopt"]_vars

C6_Witness ==
    /\ DV01Tenor
    /\ ret.kind = "nullopt"
    /\ ret.args[1] \in DOMAIN currency_rates
    /\ ret.args[1] \in DOMAIN currency_spot
    /\ ret.args[1] \in DOMAIN currency_notionals
    /\ \E lo, hi \in DOMAIN currency_rates[ret.args[1]] : lo < ret.args[2] /\ ret.args[2] < hi

\* C7.  For a non-empty curve and t >= 0 the rate get_discount_factor(t) uses
\* is r_min * t / t_min at or below the smallest stored tenor t_min, the last
\* stored rate at or above the largest stored tenor, and otherwise the linear
\* blend of the two stored points around t; at a stored tenor it is the
\* stored rate; and the divisor t_right - t_left is never zero.  The discount
\* factor is exp(-rate * t / 360).
Around(t) ==
    [lo |-> Max({k \in DOMAIN curve : k <= t}), hi |-> Min({k \in DOMAIN curve : k >= t})]

ListsOnce(q, S) ==
    /\ Len(q) = Cardinality(S)
    /\ \A x \in S : \E i \in 1..Len(q) : q[i] = x

C8_MissingDataResults ==
    /\ ret.op = "get_discount_factor" =>
          (ret.kind = "nullopt" <=>
              (ret.args[1] \notin DOMAIN currency_rates \/ ret.args[2] < 0))
    /\ ret.op = "get_tenors" =>
          /\ ret.kind = "vector"
          /\ ListsOnce(ret.value, IF ret.args[1] \in DOMAIN currency_rates
                                  THEN DOMAIN currency_rates[ret.args[1]] ELSE {})
    /\ ret.op = "get_maturities" =>
          /\ ret.kind = "vector"
          /\ ListsOnce(ret.value,
                       IF ret.args[1] \in DOMAIN currency_notionals
                       THEN DOMAIN currency_notionals[ret.args[1]].date_notionals ELSE {})

C8_Witness ==
    /\ ret.op = "get_maturities"
    /\ Len(ret.value) = 2
    /\ ret.value[1] > ret.value[2]

\* C9.  get_fx_spot(base, term) returns "no result" exactly when base or term
\* has no spot entry, and otherwise spot(base) / spot(term); USD has an entry
\* from construction on, of value 1.0 as long as no FX line for USD was
\* ingested; any other currency has an entry only once an FX line for it was
\* ingested.
C9_FxSpotIsCrossOfEntries ==
    /\ ret.op = "get_fx_spot" =>
          /\ ret.kind = "nullopt" <=>
                (ret.args[1] \notin DOMAIN currency_spot
                 \/ ret.args[2] \notin DOMAIN currency_spot)
          /\ ret.kind = "value" =>
                IF currency_spot[ret.args[2]] # 0
                THEN /\ ret.value.k = "fin"
                     /\ ret.value.n * currency_spot[ret.args[2]] =
                           ret.value.d * currency_spot[ret.args[1]]
                ELSE ret.value.k = (IF currency_spot[ret.args[1]] = 0 THEN "nan" ELSE "inf")
    /\ "USD" \in DOMAIN currency_spot
    /\ "USD" \notin fx_lines => currency_spot["USD"] = SpotDefault
    /\ \A c \in Currency \ {"USD"} : c \in DOMAIN currency_spot <=> c \in fx_lines

C9_Witness ==
    /\ ret.op = "get_fx_spot"
    /\ ret.args = <<"USD", "EUR">>
    /\ ret.kind = "value"
    /\ "USD" \notin fx_lines
    /\ ret.value = Fin(1, 2)

\* C10.  For every currency with a stored spot, whatever value an accepted
\* FX line gave it (0 included), get_fx_spot(ccy, ccy) returns exactly 1.0.
C10_SelfCrossIsOne ==
    (/\ ret.op = "get_fx_spot"
     /\ ret.args[1] = ret.args[2]
     /\ ret.args[1] \in DOMAIN currency_spot)
    => /\ ret.kind = "value"
       /\ FEq(ret.value, Fin(1, 1))

\* C11.  After any sequence of add_trade calls on a ledger, each distinct
\* date appears exactly once in get_maturities, and its aggregated notional
\* is the sum of the notionals of all the trades added for that date; adding
\* a trade on one date leaves the aggregates of the other dates unchanged.
\* NotionalSum: the sum of the notionals added for a date, as long as every
\* partial sum is an int (fits |-> FALSE once one is not).
RECURSIVE NotionalSum(_, _)
NotionalSum(trades, date) ==
    IF trades = << >> THEN [fits |-> TRUE, value |-> 0]
    ELSE LET rest == NotionalSum(SubSeq(trades, 1, Len(trades) - 1), date)
             last == trades[Len(trades)]
         IN  IF last[1] # date THEN rest
             ELSE IF ~rest.fits \/ IntAddOverflows(rest.value, last[2])
             THEN [fits |-> FALSE, value |-> 0]
             ELSE [fits |-> TRUE, value |-> rest.value + last[2]]

DatesAdded == {trades_added[i][1] : i \in 1..Len(trades_added)}

C11_AddTradeAccumulates ==
    /\ ld_phase = "open"
    /\ get_maturities(ledger) = DatesAdded
    /\ \A date \in DatesAdded :
          /\ NotionalSum(trades_added, date).fits
          /\ ledger.date_notionals[date] = NotionalSum(trades_added, date).value
    /\ ld_ret.op = "get_maturities" => ListsOnce(ld_ret.value, DatesAdded)
    /\ ld_ret.op = "add_trade" =>
          \A date \in DOMAIN ld_ret.before.date_notionals :
              date # trades_added[Len(trades_added)][1] =>
                  ledger.date_notionals[date] = ld_ret.before.date_notionals[date]

\* C12.  add_rate(tenor, rate) overwrites: afterwards the curve holds the
\* point (tenor, rate), whatever rate it held at tenor before, and every
\* other point is unchanged; adding the same (tenor, rate) again leaves the
\* curve, and get_discount_factor(t) for every t, as they are.
C12_AddRateOverwrites ==
    cv_ret.op = "add_rate" =>
        /\ get_tenors(curve) = DOMAIN cv_ret.before \cup {cv_ret.tenor}
        /\ curve[cv_ret.tenor] = cv_ret.rate
        /\ \A k \in DOMAIN cv_ret.before \ {cv_ret.tenor} : curve[k] = cv_ret.before[k]
        /\ add_rate(curve, cv_ret.tenor, cv_ret.rate) = curve
        /\ \A t \in TimeDomain :
              get_discount_factor(add_rate(curve, cv_ret.tenor, cv_ret.rate), t)
                  = get_discount_factor(curve, t)

C12_Witness ==
    /\ cv_ret.op = "add_rate"
    /\ cv_ret.tenor \in DOMAIN cv_ret.before
    /\ cv_ret.before[cv_ret.tenor] # cv_ret.rate
    /\ Cardinality(DOMAIN curve) = 2

\* C13.  During ingestion a line that matches no feed format, names an
\* unknown currency code or carries an unrecognized tenor-unit character is
\* skipped: the three collections (and delta) are unchanged, and the
\* constructor stays in the loop it is in, so every later line of the feed
\* is ingested as if the offending line were absent.
LineSkipped ==
    /\ currency_rates' = currency_rates
    /\ currency_spot' = currency_spot
    /\ currency_notionals' = currency_notionals
    /\ delta' = delta
    /\ phase' = phase

C13_OffendingLinesAreSkipped ==
    [][/\ \A n \in WideTenors, name \in WideUnits, ccy_str \in RateCcyStrs, rate \in FeedRates :
             (/\ ~to_ccy(ccy_str).has_value \/ ~unit_known(name)
              /\ parse_rate(n, name, ccy_str, rate)) => LineSkipped
       /\ \A ccy_str \in FeedCcyStrs, spot \in FeedSpots :
             (~to_ccy(ccy_str).has_value /\ parse_fx(ccy_str, spot)) => LineSkipped
       /\ \A notional \in FeedNotionals, ccy_str \in RateCcyStrs, payment_date \in FeedDates :
             (/\ ~to_ccy(ccy_str).has_value
              /\ parse_trade(notional, ccy_str, payment_date)) => LineSkipped
       /\ warn_rate_line => LineSkipped
       /\ warn_trade_line => LineSkipped]_vars

\* C14.  The release of a bump subtracts the amount captured at acquisition
\* from exactly the rate points that were incremented at acquisition,
\* whatever happened to the curve while the bump was held: a tenor that
\* add_rate inserted between bump_curve(amount) and the release keeps the
\* rate it was added with.
BumpedAtAcquisition(f, before) ==
    IF f.kind = "tenor" THEN {f.tenor} ELSE DOMAIN before

C14_ReleaseTouchesOnlyBumpedPoints ==
    cv_ret.op = "release" =>
        /\ get_tenors(curve) = DOMAIN cv_ret.held
        /\ \A k \in DOMAIN cv_ret.held :
              curve[k] = IF k \in BumpedAtAcquisition(cv_ret.f, cv_ret.before)
                         THEN FSub(cv_ret.held[k], cv_ret.f.bump_amount)
                         ELSE cv_ret.held[k]

\* C15.  Every query is read-only on the engine's stored data: a step of a
\* query changes no spot, no ledger (notionals and delta), not delta and not
\* the keys of the three collections; the queries that return in one step
\* change no curve either, and when get_DV01 returns, every curve is the
\* one stored when get_DV01 was called.
CurveAtCall == frame.at[frame.events[1][2]]

QueryStepIsReadOnly ==
    /\ currency_spot' = currency_spot
    /\ currency_notionals' = currency_notionals
    /\ delta' = delta
    /\ DOMAIN currency_rates' = DOMAIN currency_rates
    /\ (phase = "ready") => (currency_rates' = currency_rates)
    /\ (phase = "dv01") =>
          \A ccy \in DOMAIN currency_rates \ {frame.ccy} :
              currency_rates'[ccy] = currency_rates[ccy]
    /\ (phase = "dv01" /\ phase' = "ready") =>
          (currency_rates'[frame.ccy] = CurveAtCall)

C15_QueriesAreReadOnly ==
    [][(phase \in {"ready", "dv01"}) => QueryStepIsReadOnly]_vars

\* C16.  In every engine state reachable by ingestion, every curve in the
\* curve collection holds at least one rate point and every stored tenor
\* is >= 0.
C16_CurvesNonEmptyTenorsNonNegative ==
    \A ccy \in DOMAIN currency_rates :
        /\ currency_rates[ccy] # EmptyRates
        /\ \A tenor \in get_tenors(currency_rates[ccy]) : tenor >= 0

\* C17.  In every engine state reachable by ingestion, every ledger's delta
\* equals the engine's valuation delta and every stored maturity date has
\* date - delta >= 0 (a trade line whose effective tenor is negative is
\* skipped), so get_book_value only ever asks the discount function for
\* non-negative effective tenors.
C17_LedgersCarryDeltaDatesNotBefore ==
    \A ccy \in DOMAIN currency_notionals :
        /\ currency_notionals[ccy].delta = delta
        /\ \A date \in get_maturities(currency_notionals[ccy]) : date - delta >= 0
        /\ \A tenor \in eff_dates(currency_notionals[ccy]) : tenor >= 0

\* A trade line dated before the valuation date has just been skipped while
\* a ledger exists.
C17_Witness ==
    /\ phase = "portfolio"
    /\ log = "warn_tenor_val"
    /\ \E ccy \in DOMAIN currency_notionals :
          get_maturities(currency_notionals[ccy]) # {}

=============================================================================
